---- MODULE Spec2Model ----
(***************************************************************************)
(* auto-scaffold: template pattern matching, specificity resolution,       *)
(* scope containment, template merging and the watch orchestrator.         *)
(*                                                                         *)
(* Text is modelled as sequences of tokens.  A token is a run of ordinary  *)
(* characters ("src", "B", "vue"), the dot ".", or one whole bracket token *)
(* ("[n]", "[d]", "[...p]").  A path is a sequence of components (what     *)
(* lies between two "/"), each component a sequence of tokens.             *)
(***************************************************************************)
EXTENDS Integers, Sequences, FiniteSets, Bags, TLC

\* ------------------------------------------------------------------ text

Dot == "."

ParamTokens == {"[n]", "[d]"}

SpreadTokens == {"[...p]"}

\* match[0].startsWith('[...') of BRACKET_REGEX
IsSpreadToken(tok) == tok \in SpreadTokens

IsBracketToken(tok) == tok \in ParamTokens \cup SpreadTokens

\* match[1] of BRACKET_REGEX: the name inside the brackets
BracketName(tok) ==
    CASE tok = "[n]" -> "n"
      [] tok = "[d]" -> "d"
      [] tok = "[...p]" -> "p"
      [] OTHER -> tok

MaxOf(S) == CHOOSE x \in S : \A y \in S : y <= x

MinInt(a, b) == IF a < b THEN a ELSE b

MaxInt(a, b) == IF a > b THEN a ELSE b

\* faulty variant: the whole array is returned
JsSliceWhole(s, from, to) == s

\* Array.prototype.slice(from, to) over 0-based indices, negative ones
\* counted from the end
JsSlice(s, from, to) ==
    LET n == Len(s)
        a == IF from < 0 THEN MaxInt(n + from, 0) ELSE MinInt(from, n)
        b == IF to < 0 THEN MaxInt(n + to, 0) ELSE MinInt(to, n)
    IN  IF a >= b THEN << >> ELSE SubSeq(s, a + 1, b)

\* String.prototype.includes over token sequences
Includes(hay, needle) ==
    \E i \in 0..(Len(hay) - Len(needle)) :
        SubSeq(hay, i + 1, i + Len(needle)) = needle

\* pathe.extname: /.(\.[^./]+|\.)$/ on the last component
extname(path) ==
    LET name == path[Len(path)]
        dots == {i \in 2..Len(name) : name[i] = Dot}
    IN  IF dots = {} THEN << >> ELSE SubSeq(name, MaxOf(dots), Len(name))

\* pathe.dirname, as the list of directory components ('.' is the empty list)
dirname(path) == SubSeq(path, 1, Len(path) - 1)

\* pathe.basename(path, ext)
basename(path, ext) ==
    LET name == path[Len(path)]
    IN  IF ext # << >> /\ Len(name) >= Len(ext)
           /\ SubSeq(name, Len(name) - Len(ext) + 1, Len(name)) = ext
        THEN SubSeq(name, 1, Len(name) - Len(ext))
        ELSE name

\* ------------------------------------------------------------- patterns

Static(v) == [type |-> "static", value |-> v]

Param(n) == [type |-> "param", value |-> <<n>>]

Spread(n) == [type |-> "spread", value |-> <<n>>]

RECURSIVE parseSegmentFrom(_, _, _)
parseSegmentFrom(segment, i, run) ==
    IF i > Len(segment)
    THEN IF run = << >> THEN << >> ELSE <<Static(run)>>
    ELSE IF IsBracketToken(segment[i])
         THEN (IF run = << >> THEN << >> ELSE <<Static(run)>>)
              \o <<IF IsSpreadToken(segment[i])
                   THEN Spread(BracketName(segment[i]))
                   ELSE Param(BracketName(segment[i]))>>
              \o parseSegmentFrom(segment, i + 1, << >>)
         ELSE parseSegmentFrom(segment, i + 1, Append(run, segment[i]))

parseSegment(segment) ==
    LET parts == parseSegmentFrom(segment, 1, << >>)
    IN  IF parts = << >> THEN <<Static(segment)>> ELSE parts

RECURSIVE parseDirs(_)
parseDirs(dir) ==
    IF dir = << >> THEN << >>
    ELSE parseSegment(Head(dir)) \o parseDirs(Tail(dir))

parseTemplatePath(relativePath, scaffoldDir, scopePrefix, scopeDepth) ==
    LET ext == extname(relativePath)
        dir == dirname(relativePath)
        file == basename(relativePath, ext)
    IN  [segments |-> parseDirs(dir),
         filename |-> parseSegment(file),
         extension |-> ext,
         templatePath |-> relativePath,
         scaffoldDir |-> scaffoldDir,
         scopePrefix |-> scopePrefix,
         scopeDepth |-> scopeDepth]

\* ------------------------------------------------------------- matching

NoMatch == [ok |-> FALSE, captures |-> << >>]

Matched(c) == [ok |-> TRUE, captures |-> c]

\* captures[name] = value
SetCapture(captures, name, value) == (name :> value) @@ captures

\* the value a regex group captured from the file name: one component
RECURSIVE matchParts(_, _, _)
matchParts(filename, pattern, pos) ==
    IF pattern = << >>
    THEN IF pos > Len(filename) THEN Matched(<< >>) ELSE NoMatch
    ELSE LET part == Head(pattern)
             rest == Tail(pattern)
         IN  IF part.type = "static"
             THEN IF pos + Len(part.value) - 1 <= Len(filename)
                     /\ SubSeq(filename, pos, pos + Len(part.value) - 1) = part.value
                  THEN matchParts(filename, rest, pos + Len(part.value))
                  ELSE NoMatch
             ELSE LET ks == {k \in 1..(Len(filename) - pos + 1) :
                                matchParts(filename, rest, pos + k).ok}
                  IN  IF ks = {} THEN NoMatch
                      ELSE LET k == MaxOf(ks)
                               tail == matchParts(filename, rest, pos + k)
                           IN  Matched(tail.captures @@
                                   (part.value[1] :> <<SubSeq(filename, pos, pos + k - 1)>>))

\* faulty variant: the regular expression is not anchored at the end
matchFilenameUnanchored(filename, pattern) ==
    LET ks == {k \in 0..Len(filename) : matchParts(SubSeq(filename, 1, k), pattern, 1).ok}
    IN  IF ks = {} THEN NoMatch
        ELSE matchParts(SubSeq(filename, 1, MaxOf(ks)), pattern, 1)

matchFilename(filename, pattern) == matchParts(filename, pattern, 1)

IsStaticSeg(p) == p.type = "static"

IsSpreadSeg(p) == p.type = "spread"

RECURSIVE staticRun(_)
staticRun(segments) ==
    IF segments = << >> \/ Head(segments).type # "static" THEN << >>
    ELSE <<Head(segments).value>> \o staticRun(Tail(segments))

\* the leading static directories, as a list of components (parts.join('/'))
getStaticPrefix(template) == staticRun(template.segments)

\* the directory walk of matchFile; pathIdx and patternIdx are 0-based
RECURSIVE walkSegments(_, _, _, _, _)
walkSegments(template, pathSegments, patternIdx, pathIdx, captures) ==
    IF patternIdx >= Len(template.segments)
    THEN [ok |-> TRUE, pathIdx |-> pathIdx, captures |-> captures]
    ELSE LET pattern == template.segments[patternIdx + 1]
             fail == [ok |-> FALSE, pathIdx |-> pathIdx, captures |-> captures]
         IN  CASE pattern.type = "static" ->
                    IF pathIdx >= Len(pathSegments) \/ pathIdx < 0
                       \/ pathSegments[pathIdx + 1] # pattern.value
                    THEN fail
                    ELSE walkSegments(template, pathSegments, patternIdx + 1,
                                      pathIdx + 1, captures)
               [] pattern.type = "param" ->
                    IF pathIdx >= Len(pathSegments)
                    THEN fail
                    ELSE walkSegments(template, pathSegments, patternIdx + 1,
                                      pathIdx + 1,
                                      SetCapture(captures, pattern.value[1],
                                          IF pathIdx < 0 THEN <<<<"undefined">>>>
                                          ELSE <<pathSegments[pathIdx + 1]>>))
               [] OTHER ->
                    LET remainingPatterns ==
                            SubSeq(template.segments, patternIdx + 2,
                                   Len(template.segments))
                        staticCount == Len(SelectSeq(remainingPatterns, IsStaticSeg))
                        consumed == JsSlice(pathSegments, pathIdx,
                                            Len(pathSegments) - staticCount)
                    IN  walkSegments(template, pathSegments, patternIdx + 1,
                                     Len(pathSegments) - staticCount,
                                     SetCapture(captures, pattern.value[1], consumed))

\* matchFile on a path already relative to the template's scope root
matchFileInScope(filePath, template) ==
    LET ext == extname(filePath)
    IN  IF ext # template.extension THEN NoMatch
        ELSE
        LET dir == dirname(filePath)
            file == basename(filePath, ext)
            pathSegments == dir
            walk == walkSegments(template, pathSegments, 0, 0, << >>)
            spreads == SelectSeq(template.filename, IsSpreadSeg)
            statics == SelectSeq(template.filename, IsStaticSeg)
        IN  IF ~walk.ok THEN NoMatch
            ELSE IF spreads # << >>
            THEN LET remainingPath == JsSlice(pathSegments, walk.pathIdx, Len(pathSegments))
                     fullPath == remainingPath \o <<file>>
                     captures == SetCapture(walk.captures, spreads[1].value[1], fullPath)
                     filenameCaptures == matchFilename(file, statics)
                 IN  IF ~filenameCaptures.ok /\ statics # << >>
                        /\ \E i \in 1..Len(statics) : ~Includes(file, statics[i].value)
                     THEN NoMatch
                     ELSE Matched(captures)
            ELSE IF walk.pathIdx # Len(pathSegments) THEN NoMatch
            ELSE LET filenameCaptures == matchFilename(file, template.filename)
                 IN  IF ~filenameCaptures.ok THEN NoMatch
                     ELSE Matched(filenameCaptures.captures @@ walk.captures)

\* ---------------------------------------------------------------- scope

IsPrefix(pre, s) == Len(pre) <= Len(s) /\ SubSeq(s, 1, Len(pre)) = pre

\* the path relative to a scope root
StripScope(filePath, scopePrefix) ==
    SubSeq(filePath, Len(scopePrefix) + 1, Len(filePath))

\* the scope root covers the file: the file lies in a directory under it
InScope(filePath, scopePrefix) == IsPrefix(scopePrefix, dirname(filePath))

\* faulty variant: the scope of the template is not looked at
matchFileAnyScope(filePath, template) == matchFileInScope(filePath, template)

\* matchFile of a scoped template: the path must begin with scopePrefix and
\* is matched with the prefix stripped
matchFile(filePath, template) ==
    IF InScope(filePath, template.scopePrefix)
    THEN matchFileInScope(StripScope(filePath, template.scopePrefix), template)
    ELSE NoMatch

\* ------------------------------------------------------------- resolver

CountType(parts, type) == Cardinality({i \in 1..Len(parts) : parts[i].type = type})

\* faulty variant: the scope depth is compared first
getTemplateSpecificityDepthFirst(template) ==
    LET staticDirParts == CountType(template.segments, "static")
        staticFilenameParts == CountType(template.filename, "static")
        paramParts == CountType(template.segments, "param")
                        + CountType(template.filename, "param")
        spreadParts == CountType(template.segments, "spread")
                        + CountType(template.filename, "spread")
        isFullyStatic == IF paramParts = 0 /\ spreadParts = 0 THEN 1 ELSE 0
    IN  <<template.scopeDepth, isFullyStatic, staticFilenameParts, staticDirParts,
          0 - spreadParts, 0 - paramParts>>

getTemplateSpecificity(template) ==
    LET staticDirParts == CountType(template.segments, "static")
        staticFilenameParts == CountType(template.filename, "static")
        paramParts == CountType(template.segments, "param")
                        + CountType(template.filename, "param")
        spreadParts == CountType(template.segments, "spread")
                        + CountType(template.filename, "spread")
        isFullyStatic == IF paramParts = 0 /\ spreadParts = 0 THEN 1 ELSE 0
    IN  <<isFullyStatic, staticFilenameParts, staticDirParts,
          0 - spreadParts, 0 - paramParts, template.scopeDepth>>

compareSpecificity(a, b) ==
    LET diff == {i \in 1..Len(a) : a[i] # b[i]}
    IN  IF diff = {} THEN 0
        ELSE LET i == CHOOSE k \in diff : \A j \in diff : k <= j
             IN  a[i] - b[i]

NoTemplate == [none |-> TRUE]

\* faulty variant: the first matching template is returned, whatever its specificity
findBestFirstMatch(filePath, templates, i, bestIdx) ==
    LET hits == {k \in 1..Len(templates) : matchFile(filePath, templates[k]).ok}
    IN  IF hits = {} THEN 0 ELSE CHOOSE k \in hits : \A j \in hits : k <= j

\* faulty variant: a later template of equal specificity replaces the best one
RECURSIVE findBestLastOfEqual(_, _, _, _)
findBestLastOfEqual(filePath, templates, i, bestIdx) ==
    IF i > Len(templates) THEN bestIdx
    ELSE IF matchFile(filePath, templates[i]).ok
            /\ (bestIdx = 0
                \/ compareSpecificity(getTemplateSpecificity(templates[i]),
                                      getTemplateSpecificity(templates[bestIdx])) >= 0)
         THEN findBestLastOfEqual(filePath, templates, i + 1, i)
         ELSE findBestLastOfEqual(filePath, templates, i + 1, bestIdx)

\* the loop of findTemplateForFile: the index of bestTemplate, 0 for undefined
RECURSIVE findBest(_, _, _, _)
findBest(filePath, templates, i, bestIdx) ==
    IF i > Len(templates) THEN bestIdx
    ELSE IF matchFile(filePath, templates[i]).ok
            /\ (bestIdx = 0
                \/ compareSpecificity(getTemplateSpecificity(templates[i]),
                                      getTemplateSpecificity(templates[bestIdx])) > 0)
         THEN findBest(filePath, templates, i + 1, i)
         ELSE findBest(filePath, templates, i + 1, bestIdx)

findTemplateForFile(filePath, templates) ==
    LET best == findBest(filePath, templates, 1, 0)
    IN  IF best = 0 THEN NoTemplate ELSE templates[best]

\* ---------------------------------------------------------------- store

\* faulty variant: no existing entry is ever found
findIndexNotFound(templates, templatePath, scaffoldDir) == 0

\* Array.prototype.findIndex for the template of a scaffold folder, 0 for -1
findIndex(templates, templatePath, scaffoldDir) ==
    LET hits == {i \in 1..Len(templates) :
                    templates[i].templatePath = templatePath
                    /\ templates[i].scaffoldDir = scaffoldDir}
    IN  IF hits = {} THEN 0 ELSE CHOOSE i \in hits : \A j \in hits : i <= j

\* templates.splice(index, 1)
splice(templates, index) ==
    SubSeq(templates, 1, index - 1) \o SubSeq(templates, index + 1, Len(templates))

\* Map.set(t.templatePath, t): a known key keeps its place and takes the value
mapSet(entries, t) ==
    LET hits == {i \in 1..Len(entries) : entries[i].templatePath = t.templatePath}
    IN  IF hits = {} THEN Append(entries, t)
        ELSE [entries EXCEPT ![CHOOSE i \in hits : TRUE] = t]

RECURSIVE mapSetAll(_, _)
mapSetAll(entries, ts) ==
    IF ts = << >> THEN entries ELSE mapSetAll(mapSet(entries, Head(ts)), Tail(ts))

mergeTemplates(presetTemplates, userTemplates) ==
    mapSetAll(mapSetAll(<< >>, presetTemplates), userTemplates)

\* -------------------------------------------------------------- project

VueName(stem) == stem \o <<Dot, "vue">>

SrcComp == <<<<"src">>, <<"comp">>>>

AdminScope == <<<<"src">>, <<"admin">>>>

AdminComp == AdminScope \o <<<<"comp">>>>

FileB == SrcComp \o <<VueName(<<"B">>)>>

FileBc == SrcComp \o <<VueName(<<"B", Dot, "c">>)>>

FileAdmin == AdminComp \o <<VueName(<<"B">>)>>

\* the project files the developer may create, in directory-listing order
FileList == <<FileAdmin, FileBc, FileB>>

Files == {FileList[i] : i \in 1..Len(FileList)}

PatSpread == SrcComp \o <<VueName(<<"[...p]">>)>>

PatSuffix == SrcComp \o <<VueName(<<"[n]", Dot, "c">>)>>

\* a second pattern of the same ranking tuple as PatSuffix
PatSuffixTwin == SrcComp \o <<VueName(<<"[d]", Dot, "c">>)>>

PatNested == <<<<"comp">>, VueName(<<"[...p]">>)>>

SrcDir == <<<<"src">>>>

PatWide == SrcDir \o <<VueName(<<"[...p]">>)>>

RootDir == "/.scaffold"

NestedDir == "/src/admin/.scaffold"

PresetDir == "presets/vue"

\* discoverScaffoldDirs on the project: the root folder, then the nested one
Sources ==
    <<[scaffoldDir |-> RootDir, scopeRoot |-> << >>, depth |-> 0],
      [scaffoldDir |-> NestedDir, scopeRoot |-> AdminScope, depth |-> Len(AdminScope)]>>

ScaffoldDirs == {Sources[i].scaffoldDir : i \in 1..Len(Sources)}

SourceOf(dir) == Sources[CHOOSE i \in 1..Len(Sources) : Sources[i].scaffoldDir = dir]

\* the template files a folder may hold, in directory-listing order
Listing(dir) ==
    CASE dir = RootDir -> <<PatSpread, PatSuffix, PatSuffixTwin, PatWide>>
      [] dir = NestedDir -> <<PatNested>>
      [] dir = PresetDir -> <<PatSpread>>

TplFile(dir, path) == [dir |-> dir, path |-> path]

FilesOfDir(dir) == {TplFile(dir, Listing(dir)[i]) : i \in 1..Len(Listing(dir))}

UserTplFiles == UNION {FilesOfDir(d) : d \in ScaffoldDirs}

TplFiles == UserTplFiles \cup FilesOfDir(PresetDir)

\* file contents: the text of a template file in one of its versions, the
\* empty text, or text typed by the developer; NoFile marks a missing file
Text(dir, path, ver) == [dir |-> dir, path |-> path, ver |-> ver]

Empty == Text("", << >>, "")

UserText == Text("user", << >>, "")

NoFile == Text("none", << >>, "")

Edited(c) == [c EXCEPT !.ver = IF c.ver = "v1" THEN "v2" ELSE "v1"]

\* no add handler is suspended
NoTask == [path |-> << >>, template |-> [none |-> TRUE], rejected |-> FALSE]

\* statSync(file).size
Size(c) == IF c = Empty THEN 0 ELSE 1

\* ---------------------------------------------------------------- state

VARIABLES
    tdisk,          \* template file -> its text on disk, or NoFile
    fs,             \* project file -> its text on disk, or NoFile
    templates,      \* the live template list handed to startWatchers
    initialFiles,   \* the baseline set of startWatchers
    watchDirs,      \* the directories watched, inferred once at start
    fileEvents,     \* watched directory -> its undelivered events, oldest first
    tplEvents,      \* scaffold folder -> its undelivered events, oldest first
    log,            \* the messages passed to log, as a bag
    ops,            \* how many edits the developer has made to the project
    baseline0,      \* history: the baseline as captured at start
    removed,        \* history: the project files removed since start
    loaded0,        \* history: the template files loaded at start
    loadedText,     \* history: template file -> its text when it was last parsed
    born,           \* history: project file -> the template the resolver picked
                    \*   when the file was created empty, NoTemplate otherwise
    announced,      \* history: project file -> the Scaffolding messages logged
                    \*   for it since it was last created
    written,        \* history: project file -> the times applyTemplate wrote it
                    \*   since it was last created
    stopped,        \* stop() has closed the watchers
    missed,         \* history: the project files created or removed after stop()
    vanished,       \* history: the paths whose add event was handled when they did not exist
    crashed,        \* the process was ended by the rejected promise of a handler
    inflight,       \* the add handler suspended at its await, NoTask when none is
    rFile,          \* resolver run: the file path
    rCands,         \* resolver run: the candidate templates
    rResult,        \* resolver run: the template returned
    rDone,          \* resolver run: findTemplateForFile has returned
    call,           \* function call: the function's name and its arguments
    ret,            \* function call: the value returned
    returned,       \* function call: the function has returned
    watchers,       \* start-up: the watchers startWatchers has created
    readyPromises,  \* start-up: watcher -> its ready promise, pending or resolved
    ready,          \* start-up: the combined ready promise of the context
    closed          \* start-up: the watchers close() was called on

orchVars == <<tdisk, fs, templates, initialFiles, watchDirs, fileEvents, tplEvents,
              log, ops, baseline0, removed, loaded0, loadedText, born,
              announced, written, stopped, missed, vanished, crashed, inflight>>

resolveVars == <<rFile, rCands, rResult, rDone>>

callVars == <<call, ret, returned>>

lifeVars == <<watchers, readyPromises, ready, closed>>

vars == <<orchVars, resolveVars, callVars, lifeVars>>

\* the developer makes at most MaxOps edits to the project in one session
MaxOps == 2

\* at most MaxPending file-system events are undelivered at any time
MaxPending == 2

\* ------------------------------------------------------- loading at start

\* scanDirSync(dir, dir) on a scaffold folder
scanDirSync(disk, dir) ==
    LET Exists(path) == disk[TplFile(dir, path)] # NoFile
    IN  SelectSeq(Listing(dir), Exists)

parseAll(files, scaffoldDir, scopePrefix, scopeDepth) ==
    [i \in 1..Len(files) |-> parseTemplatePath(files[i], scaffoldDir, scopePrefix, scopeDepth)]

\* faulty variant: every source is given the prefix of the root
scopePrefixOfRoot(source) == << >>

\* relative(root, source.scopeRoot), '' for the root itself
scopePrefixOf(source) == source.scopeRoot

RECURSIVE loadSources(_, _)
loadSources(disk, sources) ==
    IF sources = << >> THEN << >>
    ELSE parseAll(scanDirSync(disk, Head(sources).scaffoldDir), Head(sources).scaffoldDir,
                  scopePrefixOf(Head(sources)), Head(sources).depth)
         \o loadSources(disk, Tail(sources))

loadAllTemplates(disk) == loadSources(disk, Sources)

loadPreset(disk, name) == parseAll(scanDirSync(disk, name), name, << >>, 0)

RECURSIVE loadPresets(_, _)
loadPresets(disk, presets) ==
    IF presets = << >> THEN << >>
    ELSE mapSetAll(loadPreset(disk, Head(presets)), loadPresets(disk, Tail(presets)))

\* the session start of the host: presets as base, the project's templates on top
sessionTemplates(disk, presets) ==
    mergeTemplates(loadPresets(disk, presets), loadAllTemplates(disk))

\* the directory a template asks to watch: its static prefix under its scope
watchDirOf(template) == template.scopePrefix \o getStaticPrefix(template)

\* faulty variant: the directory is added even when it is already a member
setAddAlways(dirs, d) == Append(dirs, d)

\* Set.prototype.add on a Set kept in insertion order
setAdd(dirs, d) ==
    IF \E i \in 1..Len(dirs) : dirs[i] = d THEN dirs ELSE Append(dirs, d)

RECURSIVE collectDirs(_, _)
collectDirs(ts, dirs) ==
    IF ts = << >> THEN dirs
    ELSE LET prefix == watchDirOf(Head(ts))
         IN  collectDirs(Tail(ts), IF prefix # << >> THEN setAdd(dirs, prefix) ELSE dirs)

inferWatchDirs(ts) == collectDirs(ts, << >>)

Range(seq) == {seq[i] : i \in 1..Len(seq)}

AllWatchDirs == {SrcDir, SrcComp, AdminComp}

\* chokidar.watch(dir, depth: 99) reports the files below dir
Covers(dir, path) == IsPrefix(dir, dirname(path))

Watched(dirs, path) == \E d \in dirs : Covers(d, path)

Event(kind, path) == [kind |-> kind, path |-> path]

\* the initial add events of a watcher started with ignoreInitial: false
InitialEvents(disk, dir) ==
    LET Under(path) == disk[path] # NoFile /\ Covers(dir, path)
        found == SelectSeq(FileList, Under)
    IN  [i \in 1..Len(found) |-> Event("add", found[i])]

TemplateId(t) == TplFile(t.scaffoldDir, t.templatePath)

\* ------------------------------------------------------------- handlers

\* faulty variant: the baseline is not consulted
isInitialFileNever(relativePath) == FALSE

\* initialFiles.has(relativePath)
isInitialFile(relativePath) == relativePath \in initialFiles

\* faulty variant: the baseline keeps the path
initialFilesDeleteNothing(relativePath) == initialFiles

\* the baseline after initialFiles.delete(relativePath)
initialFilesDelete(relativePath) == initialFiles \ {relativePath}

\* faulty variant: every file that exists counts as empty
isFileEmptyAnySize(filePath) == fs[filePath] # NoFile

\* faulty variant: a failing statSync counts as an empty file
isFileEmptyOnError(filePath) == fs[filePath] = NoFile \/ Size(fs[filePath]) = 0

\* statSync succeeds and reports size 0; a throwing statSync gives false
isFileEmpty(filePath) == fs[filePath] # NoFile /\ Size(fs[filePath]) = 0

\* faulty variant: the text read when the template was parsed is used
getTemplateContentCached(template) == loadedText[TemplateId(template)]

\* readFileSync of the template's file; NoFile stands for the read throwing
getTemplateContent(template) == tdisk[TemplateId(template)]

\* faulty variant: the content is read and never written
applyTemplateNoWrite(filePath, template) == fs

\* the project files after applyTemplate; nothing is written when the read throws
applyTemplate(filePath, template) ==
    IF getTemplateContent(template) = NoFile THEN fs
    ELSE [fs EXCEPT ![filePath] = getTemplateContent(template)]

\* relative(dir, filePath)
relative(dir, filePath) == SubSeq(filePath, Len(dir) + 1, Len(filePath))

Message(text, arg) == [text |-> text, arg |-> arg]

Logged(msg) == log (+) SetToBag({msg})

\* the templates after handleTemplateChange(source, filePath)
handleTemplateChange(source, templatePath) ==
    LET existingIndex == findIndex(templates, templatePath, source.scaffoldDir)
        kept == IF existingIndex # 0 THEN splice(templates, existingIndex) ELSE templates
    IN  Append(kept, parseTemplatePath(templatePath, source.scaffoldDir,
                                       scopePrefixOf(source), source.depth))

\* the templates after handleTemplateRemove(source, filePath)
handleTemplateRemove(source, templatePath) ==
    LET existingIndex == findIndex(templates, templatePath, source.scaffoldDir)
    IN  IF existingIndex # 0 THEN splice(templates, existingIndex) ELSE templates

RECURSIVE SumLen(_, _)
SumLen(queues, keys) ==
    IF keys = {} THEN 0
    ELSE LET k == CHOOSE x \in keys : TRUE
         IN  Len(queues[k]) + SumLen(queues, keys \ {k})

Pending == SumLen(fileEvents, AllWatchDirs) + SumLen(tplEvents, ScaffoldDirs)

\* what the rejected promise of an async handler does to the process: the
\* runtime ends it (TRUE) or reports the rejection and goes on (FALSE)
RejectionOutcomes == {TRUE, FALSE}

\* faulty variant: applyTemplate writes after an asynchronous read, so the
\* handler is suspended between its lookup and its write
writesAfterAwait == FALSE

\* applyTemplate reads and writes synchronously: the write is done when the
\* handler reaches its await
writesBeforeAwait == TRUE

\* no handler is running: a handler awaiting a promise that is already
\* settled resumes before any other event is delivered, one awaiting
\* input or output does not
EventLoopFree == ~crashed /\ (inflight = NoTask \/ ~writesBeforeAwait)

MayEdit == ops < MaxOps /\ Pending < MaxPending /\ EventLoopFree

\* faulty variant: a closed watcher goes on reporting
isClosedNever == FALSE

\* watcher.close() has run
isClosed == stopped

\* every open watcher whose directory covers the file reports the event
Report(kind, path) ==
    [d \in AllWatchDirs |->
        IF ~isClosed /\ d \in watchDirs /\ Covers(d, path)
        THEN Append(fileEvents[d], Event(kind, path))
        ELSE fileEvents[d]]

\* ---------------------------------------------------------------- start

\* the project before the session: B.vue may exist, as an empty file
InitialProjects ==
    {f \in [Files -> {NoFile, Empty}] : \A p \in Files \ {FileB} : f[p] = NoFile}

\* the template of the src directory is an empty file the developer keeps
\* as it is during the session
BlankTplFile == TplFile(RootDir, PatWide)

\* a template file of the project that is there from the start and that the
\* developer keeps as it is during the session
KeptTplFile == TplFile(RootDir, PatSuffixTwin)

\* the template files the developer adds, edits and removes
EditedTplFiles == UserTplFiles \ {BlankTplFile, KeptTplFile}

\* the template files before the session: each of the project's but the
\* kept one may be missing
InitialDisks ==
    {[f \in TplFiles |->
        IF f.dir = PresetDir THEN Text(f.dir, f.path, "v1")
        ELSE IF f \notin present THEN NoFile
        ELSE IF f = BlankTplFile THEN Empty
        ELSE Text(f.dir, f.path, "v1")] :
     present \in {some \cup {KeptTplFile} : some \in SUBSET (UserTplFiles \ {KeptTplFile})}}

IdleResolver ==
    /\ rFile = << >>
    /\ rCands = << >>
    /\ rResult = NoTemplate
    /\ rDone = FALSE

NoCall == [op |-> "none", args |-> << >>]

IdleCalls ==
    /\ call = NoCall
    /\ ret = << >>
    /\ returned = FALSE

IdleLife ==
    /\ watchers = {}
    /\ readyPromises = << >>
    /\ ready = "pending"
    /\ closed = {}

\* the state startWatchers returns in
Init ==
    /\ tdisk \in InitialDisks
    /\ fs \in InitialProjects
    /\ \E presets \in {<< >>, <<PresetDir>>} :
           templates = sessionTemplates(tdisk, presets)
    /\ watchDirs = Range(inferWatchDirs(templates))
    /\ initialFiles = {p \in Files : fs[p] # NoFile /\ Watched(watchDirs, p)}
    /\ fileEvents = [d \in AllWatchDirs |->
                        IF d \in watchDirs THEN InitialEvents(fs, d) ELSE << >>]
    /\ tplEvents = [d \in ScaffoldDirs |-> << >>]
    /\ log = EmptyBag
    /\ ops = 0
    /\ baseline0 = initialFiles
    /\ removed = {}
    /\ loaded0 = {TemplateId(templates[i]) : i \in 1..Len(templates)}
    /\ loadedText = [f \in TplFiles |-> IF f \in loaded0 THEN tdisk[f] ELSE NoFile]
    /\ born = [p \in Files |-> NoTemplate]
    /\ announced = [p \in Files |-> 0]
    /\ written = [p \in Files |-> 0]
    /\ stopped = FALSE
    /\ crashed = FALSE
    /\ inflight = NoTask
    /\ missed = {}
    /\ vanished = {}
    /\ IdleResolver
    /\ IdleCalls
    /\ IdleLife

\* ------------------------------------------------------------ developer

CreateFile ==
    \E p \in Files, c \in {Empty, UserText} :
        /\ MayEdit
        /\ fs[p] = NoFile
        /\ fs' = [fs EXCEPT ![p] = c]
        /\ fileEvents' = Report("add", p)
        /\ born' = [born EXCEPT ![p] = IF c = Empty
                                       THEN findTemplateForFile(p, templates)
                                       ELSE NoTemplate]
        /\ announced' = [announced EXCEPT ![p] = 0]
        /\ written' = [written EXCEPT ![p] = 0]
        /\ ops' = ops + 1
        /\ missed' = IF isClosed THEN missed \cup {p} ELSE missed
        /\ UNCHANGED <<tdisk, templates, initialFiles, watchDirs, tplEvents, log,
                       baseline0, removed, loaded0, loadedText, stopped, vanished,
                       crashed, inflight, resolveVars, callVars, lifeVars>>

RemoveFile ==
    \E p \in Files :
        /\ MayEdit
        /\ fs[p] # NoFile
        /\ fs' = [fs EXCEPT ![p] = NoFile]
        /\ fileEvents' = Report("unlink", p)
        /\ removed' = removed \cup ({p} \cap baseline0)
        /\ born' = [born EXCEPT ![p] = NoTemplate]
        /\ ops' = ops + 1
        /\ missed' = IF isClosed THEN missed \cup {p} ELSE missed
        /\ UNCHANGED <<tdisk, templates, initialFiles, watchDirs, tplEvents, log,
                       baseline0, loaded0, loadedText, announced, written,
                       stopped, vanished, crashed, inflight, resolveVars, callVars, lifeVars>>

WriteTemplate(f, text, kind) ==
    /\ MayEdit
    /\ tdisk' = [tdisk EXCEPT ![f] = text]
    /\ tplEvents' = IF isClosed THEN tplEvents
                    ELSE [tplEvents EXCEPT ![f.dir] = Append(@, Event(kind, f.path))]
    /\ ops' = ops + 1
    /\ UNCHANGED <<fs, templates, initialFiles, watchDirs, fileEvents, log,
                   baseline0, removed, loaded0, loadedText, born, announced, written,
                   stopped, missed, vanished, crashed, inflight, resolveVars, callVars, lifeVars>>

AddTemplate ==
    \E f \in EditedTplFiles :
        tdisk[f] = NoFile /\ WriteTemplate(f, Text(f.dir, f.path, "v1"), "add")

EditTemplate ==
    \E f \in EditedTplFiles :
        tdisk[f] # NoFile /\ WriteTemplate(f, Edited(tdisk[f]), "change")

RemoveTemplate ==
    \E f \in EditedTplFiles :
        tdisk[f] # NoFile /\ WriteTemplate(f, NoFile, "unlink")

\* ------------------------------------------------------------- watchers

\* watcher.on('add') of the watcher of directory dir
OnAdd ==
    \E dir \in AllWatchDirs :
        /\ EventLoopFree
        /\ inflight = NoTask
        /\ fileEvents[dir] # << >>
        /\ Head(fileEvents[dir]).kind = "add"
        /\ LET filePath == Head(fileEvents[dir]).path
               template == findTemplateForFile(filePath, templates)
               throws == getTemplateContent(template) = NoFile
           IN  IF isInitialFile(filePath) \/ ~isFileEmpty(filePath)
                  \/ template = NoTemplate
               THEN UNCHANGED <<fs, log, announced, written, inflight>>
               ELSE /\ log' = Logged(Message("Scaffolding", relative(dir, filePath)))
                    /\ announced' = [announced EXCEPT ![filePath] = @ + 1]
                    /\ IF writesBeforeAwait
                       THEN /\ fs' = applyTemplate(filePath, template)
                            /\ written' = [written EXCEPT ![filePath] =
                                               IF throws THEN @ ELSE @ + 1]
                            /\ inflight' = [path |-> filePath, template |-> template,
                                            rejected |-> throws]
                       ELSE /\ UNCHANGED <<fs, written>>
                            /\ inflight' = [path |-> filePath, template |-> template,
                                            rejected |-> FALSE]
        /\ vanished' = IF fs[Head(fileEvents[dir]).path] = NoFile
                       THEN vanished \cup {Head(fileEvents[dir]).path}
                       ELSE vanished
        /\ fileEvents' = [fileEvents EXCEPT ![dir] = Tail(@)]
        /\ UNCHANGED <<tdisk, templates, initialFiles, watchDirs, tplEvents, ops,
                       baseline0, removed, loaded0, loadedText, born, stopped, missed,
                       crashed, resolveVars, callVars, lifeVars>>

\* the add handler resumes after its await and returns; a rejected promise
\* makes it throw, and nothing handles the promise it returns
OnAddReturn ==
    /\ ~crashed
    /\ inflight # NoTask
    /\ LET throws == getTemplateContent(inflight.template) = NoFile
       IN  IF writesBeforeAwait
           THEN /\ UNCHANGED <<fs, written>>
                /\ crashed' \in IF inflight.rejected THEN RejectionOutcomes ELSE {FALSE}
           ELSE /\ fs' = applyTemplate(inflight.path, inflight.template)
                /\ written' = [written EXCEPT ![inflight.path] =
                                   IF throws THEN @ ELSE @ + 1]
                /\ crashed' \in IF throws THEN RejectionOutcomes ELSE {FALSE}
    /\ inflight' = NoTask
    /\ UNCHANGED <<tdisk, templates, initialFiles, watchDirs, fileEvents, tplEvents,
                   log, ops, baseline0, removed, loaded0, loadedText, born, announced,
                   stopped, missed, vanished, resolveVars, callVars, lifeVars>>

\* watcher.on('unlink') of the watcher of directory dir
OnUnlink ==
    \E dir \in AllWatchDirs :
        /\ EventLoopFree
        /\ fileEvents[dir] # << >>
        /\ Head(fileEvents[dir]).kind = "unlink"
        /\ initialFiles' = initialFilesDelete(Head(fileEvents[dir]).path)
        /\ fileEvents' = [fileEvents EXCEPT ![dir] = Tail(@)]
        /\ UNCHANGED <<tdisk, fs, templates, watchDirs, tplEvents, log, ops,
                       baseline0, removed, loaded0, loadedText, born, announced, written,
                       stopped, missed, vanished, crashed, inflight, resolveVars, callVars, lifeVars>>

\* scaffoldWatcher.on('add' | 'change') of a scaffold folder
OnTemplateChange ==
    \E dir \in ScaffoldDirs :
        /\ EventLoopFree
        /\ tplEvents[dir] # << >>
        /\ Head(tplEvents[dir]).kind \in {"add", "change"}
        /\ LET templatePath == Head(tplEvents[dir]).path
               file == TplFile(dir, templatePath)
           IN  IF tdisk[file] = NoFile
               THEN UNCHANGED <<templates, log, loadedText>>
               ELSE /\ templates' = handleTemplateChange(SourceOf(dir), templatePath)
                    /\ log' = Logged(Message(
                                IF findIndex(templates, templatePath, dir) # 0
                                THEN "Template updated" ELSE "Template added",
                                templatePath))
                    /\ loadedText' = [loadedText EXCEPT ![file] = tdisk[file]]
        /\ tplEvents' = [tplEvents EXCEPT ![dir] = Tail(@)]
        /\ UNCHANGED <<tdisk, fs, initialFiles, watchDirs, fileEvents, ops,
                       baseline0, removed, loaded0, born, announced, written,
                       stopped, missed, vanished, crashed, inflight, resolveVars, callVars, lifeVars>>

\* scaffoldWatcher.on('unlink') of a scaffold folder
OnTemplateRemove ==
    \E dir \in ScaffoldDirs :
        /\ EventLoopFree
        /\ tplEvents[dir] # << >>
        /\ Head(tplEvents[dir]).kind = "unlink"
        /\ LET templatePath == Head(tplEvents[dir]).path
           IN  /\ templates' = handleTemplateRemove(SourceOf(dir), templatePath)
               /\ log' = IF findIndex(templates, templatePath, dir) # 0
                         THEN Logged(Message("Template removed", templatePath))
                         ELSE log
        /\ tplEvents' = [tplEvents EXCEPT ![dir] = Tail(@)]
        /\ UNCHANGED <<tdisk, fs, initialFiles, watchDirs, fileEvents, ops,
                       baseline0, removed, loaded0, loadedText, born, announced, written,
                       stopped, missed, vanished, crashed, inflight, resolveVars, callVars, lifeVars>>

\* stop(): every watcher is closed; a closed watcher reports nothing more
Stop ==
    /\ ops < MaxOps
    /\ EventLoopFree
    /\ stopped' = TRUE
    /\ fileEvents' = [d \in AllWatchDirs |-> << >>]
    /\ tplEvents' = [d \in ScaffoldDirs |-> << >>]
    /\ ops' = ops + 1
    /\ UNCHANGED <<tdisk, fs, templates, initialFiles, watchDirs, log,
                   baseline0, removed, loaded0, loadedText, born, announced, written,
                   missed, vanished, crashed, inflight, resolveVars, callVars, lifeVars>>

Next ==
    \/ CreateFile
    \/ RemoveFile
    \/ AddTemplate
    \/ EditTemplate
    \/ RemoveTemplate
    \/ OnAdd
    \/ OnAddReturn
    \/ OnUnlink
    \/ OnTemplateChange
    \/ OnTemplateRemove
    \/ Stop

Spec == Init /\ [][Next]_vars

\* ------------------------------------------------- resolver on its own

\* findTemplateForFile is called with at most MaxCands candidates
MaxCands == 2

CompDir == <<"comp">>

\* pattern paths, relative to their scaffold folder
ResolvePatterns ==
    {<<VueName(<<"[...p]">>)>>,
     <<VueName(<<"[n]">>)>>,
     <<VueName(<<"B">>)>>,
     <<VueName(<<"[...p]", Dot, "c">>)>>,
     <<CompDir, VueName(<<"[...p]">>)>>,
     <<CompDir, VueName(<<"[n]">>)>>,
     <<CompDir, VueName(<<"B">>)>>,
     <<<<"[d]">>, VueName(<<"[n]">>)>>,
     <<<<"[...p]">>, VueName(<<"[n]">>)>>}

\* scaffold folders: at the root, and nested in comp and in comp/comp
ResolveScopes == {<< >>, <<CompDir>>, <<CompDir, CompDir>>}

\* a preset template of the same pattern path as a template of the project
ResolvePreset == parseTemplatePath(<<VueName(<<"[n]">>)>>, PresetDir, << >>, 0)

\* loadAllTemplates gives each template the depth of its scope root
ResolveTemplates ==
    {parseTemplatePath(path, "/scaffold", scope, Len(scope)) :
        path \in ResolvePatterns, scope \in ResolveScopes}
    \cup {ResolvePreset}

ResolveFiles ==
    {<<VueName(<<"B">>)>>,
     <<VueName(<<"B", Dot, "c">>)>>,
     <<CompDir, VueName(<<"B">>)>>,
     <<CompDir, VueName(<<"B", Dot, "c">>)>>,
     <<CompDir, CompDir, VueName(<<"B">>)>>,
     <<CompDir, <<"B", Dot, "ts">>>>}

CandidateLists ==
    UNION {[1..n -> ResolveTemplates] : n \in 0..MaxCands}

IdleOrchestrator ==
    /\ tdisk = [f \in TplFiles |-> NoFile]
    /\ fs = [p \in Files |-> NoFile]
    /\ templates = << >>
    /\ initialFiles = {}
    /\ watchDirs = {}
    /\ fileEvents = [d \in AllWatchDirs |-> << >>]
    /\ tplEvents = [d \in ScaffoldDirs |-> << >>]
    /\ log = EmptyBag
    /\ ops = 0
    /\ baseline0 = {}
    /\ removed = {}
    /\ loaded0 = {}
    /\ loadedText = [f \in TplFiles |-> NoFile]
    /\ born = [p \in Files |-> NoTemplate]
    /\ announced = [p \in Files |-> 0]
    /\ written = [p \in Files |-> 0]
    /\ stopped = FALSE
    /\ crashed = FALSE
    /\ inflight = NoTask
    /\ missed = {}
    /\ vanished = {}

ResolveInit ==
    /\ rFile \in ResolveFiles
    /\ rCands \in CandidateLists
    /\ rResult = NoTemplate
    /\ rDone = FALSE
    /\ IdleOrchestrator
    /\ IdleCalls
    /\ IdleLife

Resolve ==
    /\ ~rDone
    /\ rResult' = findTemplateForFile(rFile, rCands)
    /\ rDone' = TRUE
    /\ UNCHANGED <<rFile, rCands, orchVars, callVars, lifeVars>>

ResolveNext == Resolve

SpecResolve == ResolveInit /\ [][ResolveNext]_vars

\* ---------------------------------------------- functions on their own

\* the lists handed to a function hold at most MaxList templates
MaxList == 2

Lists(S) == UNION {[1..n -> S] : n \in 0..MaxList}

Call(op, args) == [op |-> op, args |-> args]

\* pattern paths of the merged collections
MergePaths == {<<VueName(<<"[...p]">>)>>, <<CompDir, VueName(<<"[...p]">>)>>}

\* templates of a preset: no scope
BaseTemplates == {parseTemplatePath(path, PresetDir, << >>, 0) : path \in MergePaths}

\* templates of the project: of the root folder and of the folder nested in comp
OverrideTemplates ==
    {parseTemplatePath(path, IF scope = << >> THEN "/scaffold" ELSE "/comp/scaffold",
                       scope, Len(scope)) :
        path \in MergePaths, scope \in {<< >>, <<CompDir>>}}

MergeCalls ==
    {Call("mergeTemplates", <<base, override>>) :
        base \in Lists(BaseTemplates), override \in Lists(OverrideTemplates)}

InferCalls == {Call("inferWatchDirs", <<ts>>) : ts \in Lists(OverrideTemplates)}

\* the concrete paths matched lie at most MaxDepth directories deep
MaxDepth == 2

\* directory names; "compx" is the two tokens "comp" and "x"
MatchDirs == {<<"comp">>, <<"x">>, <<"comp", "x">>}

MatchNames == {VueName(<<"B">>), VueName(<<"B", Dot, "c">>), <<"B", Dot, "ts">>}

MatchFiles ==
    {dirs \o <<name>> :
        dirs \in UNION {[1..n -> MatchDirs] : n \in 0..MaxDepth}, name \in MatchNames}

\* pattern paths: static ones, a spread file name under static directories,
\* params, a directory component mixing static text and a param, a spread
\* directory followed by a static one, and a spread file name with a static
\* suffix
MatchPatterns ==
    {<<VueName(<<"B">>)>>,
     <<VueName(<<"B", Dot, "c">>)>>,
     <<<<"comp">>, VueName(<<"B">>)>>,
     <<<<"comp", "x">>, VueName(<<"B">>)>>,
     <<<<"comp">>, <<"x">>, VueName(<<"B">>)>>,
     <<VueName(<<"[...p]">>)>>,
     <<<<"comp">>, VueName(<<"[...p]">>)>>,
     <<<<"comp">>, <<"x">>, VueName(<<"[...p]">>)>>,
     <<VueName(<<"[n]">>)>>,
     <<<<"comp">>, VueName(<<"[n]">>)>>,
     <<<<"[d]">>, VueName(<<"[n]">>)>>,
     <<<<"[d]">>, VueName(<<"B">>)>>,
     <<<<"comp", "[d]">>, VueName(<<"B">>)>>,
     <<<<"comp">>, <<"[...p]">>, <<"x">>, VueName(<<"B">>)>>,
     <<<<"comp">>, <<"[...p]">>, <<"comp">>, VueName(<<"B">>)>>,
     <<VueName(<<"[...p]", Dot, "c">>)>>}

MatchTemplates == {parseTemplatePath(path, "/scaffold", << >>, 0) : path \in MatchPatterns}

MatchCalls ==
    {Call("matchFile", <<filePath, template>>) :
        filePath \in MatchFiles, template \in MatchTemplates}

\* a directory tree: the paths, relative to the root, that are directories
\* and those that are files
existsSync(tree, path) == path \in tree.dirs \cup tree.files

isDirectory(tree, path) == path \in tree.dirs

\* entry names in the order readdirSync lists them
EntryOrder == <<<<Dot, "h">>, <<"a">>, <<"tpl">>>>

IsEntryOf(tree, dir, name) == existsSync(tree, Append(dir, name))

\* readdirSync(dir): the names of the entries of a directory
readdirSync(tree, dir) ==
    LET Present(name) == IsEntryOf(tree, dir, name)
    IN  SelectSeq(EntryOrder, Present)

\* faulty variant: hidden directories are scanned as well
descendsHidden(tree, dir, entry, scaffoldDirName) ==
    isDirectory(tree, Append(dir, entry)) /\ entry # scaffoldDirName

\* entry.isDirectory() && entry.name !== scaffoldDirName && !entry.name.startsWith('.')
descends(tree, dir, entry, scaffoldDirName) ==
    /\ isDirectory(tree, Append(dir, entry))
    /\ entry # scaffoldDirName
    /\ Head(entry) # Dot

RECURSIVE scan(_, _, _, _)
RECURSIVE scanEntries(_, _, _, _, _)
scanEntries(tree, scaffoldDirName, dir, depth, entries) ==
    IF entries = << >> THEN << >>
    ELSE (IF descends(tree, dir, Head(entries), scaffoldDirName)
          THEN scan(tree, scaffoldDirName, Append(dir, Head(entries)), depth + 1)
          ELSE << >>)
         \o scanEntries(tree, scaffoldDirName, dir, depth, Tail(entries))

\* scan(dir, depth): the sources pushed by the call, in the order pushed
scan(tree, scaffoldDirName, dir, depth) ==
    LET scaffoldPath == Append(dir, scaffoldDirName)
    IN  (IF existsSync(tree, scaffoldPath) /\ isDirectory(tree, scaffoldPath)
         THEN <<[scaffoldDir |-> scaffoldPath, scopeRoot |-> dir, depth |-> depth]>>
         ELSE << >>)
        \o scanEntries(tree, scaffoldDirName, dir, depth, readdirSync(tree, dir))

discoverScaffoldDirs(tree, scaffoldDirName) == scan(tree, scaffoldDirName, << >>, 0)

\* a tree is grown from at most MaxLeaves paths
MaxLeaves == 2

EntryNames == Range(EntryOrder)

\* paths of one to three entries below the root
TreePaths ==
    {<<x>> : x \in EntryNames}
      \cup {<<x, y>> : x, y \in EntryNames}
      \cup {<<x, y, z>> : x, y, z \in EntryNames}

Prefixes(path) == {SubSeq(path, 1, k) : k \in 1..Len(path)}

\* the tree holding the given paths: directories all, but for the one path
\* given as a file
TreeOf(leaves, file) ==
    [dirs |-> (UNION {Prefixes(path) : path \in leaves}) \ file,
     files |-> file]

\* a path can be a file when no other path of the tree lies below it
Trees ==
    {TreeOf(leaves, file) :
        <<leaves, file>> \in
            {lf \in {Range(ls) : ls \in UNION {[1..n -> TreePaths] : n \in 0..MaxLeaves}}
                      \X ({{}} \cup {{path} : path \in TreePaths}) :
                /\ lf[2] \subseteq lf[1]
                /\ \A path \in lf[1] : lf[2] \cap Prefixes(path) \subseteq {path}}}

DiscoverCalls ==
    {Call("discoverScaffoldDirs", <<tree, scaffoldDirName>>) :
        tree \in Trees, scaffoldDirName \in {<<"tpl">>, <<Dot, "h">>}}

Calls == MergeCalls \cup InferCalls \cup MatchCalls \cup DiscoverCalls

CallsInit ==
    /\ call \in Calls
    /\ ret = << >>
    /\ returned = FALSE
    /\ IdleOrchestrator
    /\ IdleResolver
    /\ IdleLife

Return(value) ==
    /\ ~returned
    /\ ret' = value
    /\ returned' = TRUE
    /\ UNCHANGED <<call, orchVars, resolveVars, lifeVars>>

CallMergeTemplates ==
    /\ call.op = "mergeTemplates"
    /\ Return(mergeTemplates(call.args[1], call.args[2]))

CallInferWatchDirs ==
    /\ call.op = "inferWatchDirs"
    /\ Return(inferWatchDirs(call.args[1]))

CallMatchFile ==
    /\ call.op = "matchFile"
    /\ Return(matchFile(call.args[1], call.args[2]))

CallDiscoverScaffoldDirs ==
    /\ call.op = "discoverScaffoldDirs"
    /\ Return(discoverScaffoldDirs(call.args[1], call.args[2]))

CallsNext ==
    \/ CallMergeTemplates
    \/ CallDiscoverScaffoldDirs
    \/ CallMatchFile
    \/ CallInferWatchDirs

SpecCalls == CallsInit /\ [][CallsNext]_vars

\* ------------------------------------------------- start-up and stop

\* the watchers a session can have: one per scaffold folder, one per
\* watched directory that exists
AllWatchers == ScaffoldDirs \cup {"src", "src/comp", "src/admin/comp"}

LifeInit ==
    /\ watchers \in SUBSET AllWatchers
    /\ readyPromises = [w \in watchers |-> "pending"]
    /\ ready = "pending"
    /\ closed = {}
    /\ IdleOrchestrator
    /\ IdleResolver
    /\ IdleCalls

\* an open watcher ends its first scan and emits 'ready': the listener set
\* with once('ready', resolve) resolves the watcher's promise
EmitReady(w) ==
    /\ w \in watchers \ closed
    /\ readyPromises[w] = "pending"
    /\ readyPromises' = [readyPromises EXCEPT ![w] = "resolved"]
    /\ UNCHANGED <<watchers, ready, closed, orchVars, resolveVars, callVars>>

\* Promise.all(readyPromises).then(() => undefined)
SettleReady ==
    /\ ready = "pending"
    /\ \A w \in watchers : readyPromises[w] = "resolved"
    /\ ready' = "resolved"
    /\ UNCHANGED <<watchers, readyPromises, closed, orchVars, resolveVars, callVars>>

\* stop(): close() on every watcher; a closed watcher has no listeners left
\* and emits nothing
StopWatchers ==
    /\ closed' = watchers
    /\ UNCHANGED <<watchers, readyPromises, ready, orchVars, resolveVars, callVars>>

LifeNext ==
    \/ \E w \in AllWatchers : EmitReady(w)
    \/ SettleReady
    \/ StopWatchers

\* every open watcher ends its first scan, and a promise whose inputs are
\* resolved runs its continuation
LifeFairness ==
    /\ \A w \in AllWatchers : WF_vars(EmitReady(w))
    /\ WF_vars(SettleReady)

SpecLife == LifeInit /\ [][LifeNext]_vars /\ LifeFairness

\* ----------------------------------------------------------- properties

\* the step delivers the add event of project file p to its handler (stop()
\* drops the events instead)
HandlesAdd(p) ==
    \E dir \in AllWatchDirs :
        /\ fileEvents[dir] # << >>
        /\ Head(fileEvents[dir]) = Event("add", p)
        /\ fileEvents' = [fileEvents EXCEPT ![dir] = Tail(@)]
        /\ stopped' = stopped

\* the step is a handler writing project file p
Scaffolds(p) == HandlesAdd(p) /\ fs'[p] # fs[p]

\* the text c is a version of the template file f
IsTextOf(c, f) == c # NoFile /\ c.dir = f.dir /\ c.path = f.path

TemplateTexts == {Text(f.dir, f.path, v) : f \in TplFiles, v \in {"v1", "v2"}}

\* the ranking criteria in their order of priority, read off the parsed pattern
RankTuple(t) ==
    LET Uses(type) == CountType(t.segments, type) + CountType(t.filename, type)
    IN  <<IF Uses("param") + Uses("spread") = 0 THEN 1 ELSE 0,
          CountType(t.filename, "static"),
          CountType(t.segments, "static"),
          0 - Uses("spread"),
          0 - Uses("param"),
          t.scopeDepth>>

PatternRank(t) == SubSeq(RankTuple(t), 1, Len(RankTuple(t)) - 1)

LexGreater(a, b) ==
    \E i \in 1..Len(a) : a[i] > b[i] /\ \A j \in 1..(i - 1) : a[j] = b[j]

MatchingIdx(filePath, ts) == {i \in 1..Len(ts) : matchFile(filePath, ts[i]).ok}

\* the earliest of the matching templates no other matching template outranks
WinnerIdx(filePath, ts) ==
    CHOOSE i \in MatchingIdx(filePath, ts) :
        \A j \in MatchingIdx(filePath, ts) :
            /\ ~LexGreater(RankTuple(ts[j]), RankTuple(ts[i]))
            /\ (RankTuple(ts[j]) = RankTuple(ts[i]) => i <= j)

FilenameUses(t, type) == CountType(t.filename, type) > 0

C2_NonEmptyFileLeftAlone ==
    [][\A p \in Files :
        (HandlesAdd(p) /\ fs[p] # NoFile /\ Size(fs[p]) # 0)
        => (fs' = fs /\ log' = log)]_vars

\* a non-empty file created after start, matched by a live template, whose
\* add event has been handled
C2_UserFileHandled ==
    \E p \in Files \ baseline0 :
        /\ fs[p] = UserText
        /\ Watched(watchDirs, p)
        /\ MatchingIdx(p, templates) # {}
        /\ Pending = 0

\* C3: a file of the baseline that has not been removed since start holds what
\* the developer put in it: no template text is ever written into it
C3_BaselineNeverWritten ==
    \A p \in baseline0 \ removed : fs[p] \in {Empty, UserText}

\* an empty baseline file matched by a live template whose initial add event
\* has been handled
C3_EmptyBaselineHandled ==
    \E p \in baseline0 \ removed :
        /\ fs[p] = Empty
        /\ p \in initialFiles
        /\ MatchingIdx(p, templates) # {}
        /\ tdisk[TemplateId(templates[WinnerIdx(p, templates)])] # NoFile
        /\ Pending = 0

\* C4: a template matches only files under its scopePrefix, and matches them
\* as its pattern matches the path with the prefix stripped; the template the
\* resolver returns has the file under its scopePrefix
C4_ScopedTemplateStaysInScope ==
    rDone =>
        /\ \A i \in 1..Len(rCands) :
              matchFile(rFile, rCands[i]) =
                  IF IsPrefix(rCands[i].scopePrefix, rFile)
                  THEN matchFileInScope(
                          SubSeq(rFile, Len(rCands[i].scopePrefix) + 1, Len(rFile)),
                          rCands[i])
                  ELSE NoMatch
        /\ rResult # NoTemplate => IsPrefix(rResult.scopePrefix, rFile)

\* the first candidate is scoped, its pattern fits the file's path, the file
\* is outside its scope, and the resolver returned the second candidate
C4_OutOfScopePassedOver ==
    /\ rDone
    /\ Len(rCands) = MaxCands
    /\ rCands[1].scopePrefix # << >>
    /\ ~IsPrefix(rCands[1].scopePrefix, rFile)
    /\ matchFileInScope(rFile, rCands[1]).ok
    /\ rResult = rCands[Len(rCands)]

\* C5 (as amended): findTemplateForFile returns nothing exactly when no
\* candidate matches; otherwise it returns a matching candidate no matching
\* candidate outranks; a matching fully static template is never passed over
\* for one using a param or spread; and a matching template with a param
\* filename and no spread is never passed over for one with a spread filename
\* that has the same numbers of static filename and directory parts
C5_ResolverReturnsGreatest ==
    rDone =>
        LET hits == MatchingIdx(rFile, rCands)
        IN  /\ (rResult = NoTemplate) <=> (hits = {})
            /\ hits # {} =>
                 \E i \in hits :
                    /\ rResult = rCands[i]
                    /\ \A j \in hits :
                          ~LexGreater(RankTuple(rCands[j]), RankTuple(rCands[i]))
            /\ \A i, j \in hits :
                  (RankTuple(rCands[i])[1] = 1 /\ RankTuple(rCands[j])[1] = 0)
                  => rResult # rCands[j]
            /\ \A i, j \in hits :
                  (/\ FilenameUses(rCands[i], "param")
                   /\ CountType(rCands[i].segments, "spread") = 0
                   /\ ~FilenameUses(rCands[i], "spread")
                   /\ FilenameUses(rCands[j], "spread")
                   /\ CountType(rCands[i].filename, "static")
                        = CountType(rCands[j].filename, "static")
                   /\ CountType(rCands[i].segments, "static")
                        = CountType(rCands[j].segments, "static"))
                  => rResult # rCands[j]

\* C5 as stated: the same, with a matching param filename beating every
\* matching spread filename
C5_ParamFilenameBeatsSpreadFilename ==
    rDone =>
        LET hits == MatchingIdx(rFile, rCands)
        IN  /\ (rResult = NoTemplate) <=> (hits = {})
            /\ hits # {} =>
                 \E i \in hits :
                    /\ rResult = rCands[i]
                    /\ \A j \in hits :
                          ~LexGreater(RankTuple(rCands[j]), RankTuple(rCands[i]))
            /\ \A i, j \in hits :
                  (RankTuple(rCands[i])[1] = 1 /\ RankTuple(rCands[j])[1] = 0)
                  => rResult # rCands[j]
            /\ \A i, j \in hits :
                  (/\ FilenameUses(rCands[i], "param")
                   /\ ~FilenameUses(rCands[i], "spread")
                   /\ FilenameUses(rCands[j], "spread"))
                  => rResult # rCands[j]

\* a spread filename listed first and a param filename listed second both
\* match, and the second is returned
C5_ParamOverSpread ==
    /\ rDone
    /\ MatchingIdx(rFile, rCands) = {1, MaxCands}
    /\ FilenameUses(rCands[1], "spread")
    /\ FilenameUses(rCands[MaxCands], "param")
    /\ ~FilenameUses(rCands[MaxCands], "spread")
    /\ rResult = rCands[MaxCands]
    /\ rResult # rCands[1]

C7_DeeperFolderWins ==
    rDone =>
        \A i, j \in MatchingIdx(rFile, rCands) :
            rCands[i].scopeDepth > rCands[j].scopeDepth => rResult # rCands[j]

\* C8 as stated: a file is never scaffolded from a preset template while the
\* live template list holds a user template of the same pattern path and scope
C8_UserTemplateOverridesPreset ==
    [][\A p \in Files :
        (Scaffolds(p) /\ fs'[p].dir = PresetDir)
        => ~\E i \in 1..Len(templates) :
               /\ templates[i].scaffoldDir # PresetDir
               /\ templates[i].templatePath = fs'[p].path
               /\ templates[i].scopePrefix = << >>
               /\ tdisk[TemplateId(templates[i])] # NoFile]_vars

\* C9: the content written into a scaffolded file is the content the source
\* file of the selected template has on disk when the template is applied
C9_ContentReadAtApplyTime ==
    [][\A p \in Files :
        Scaffolds(p)
        => fs'[p] = tdisk[TemplateId(findTemplateForFile(p, templates))]]_vars

\* a file holds the edited text of a template while the text last parsed for
\* that template is still the unedited one
C9_EditedTextWritten ==
    \E p \in Files :
        /\ fs[p] \in TemplateTexts
        /\ fs[p] = tdisk[TplFile(fs[p].dir, fs[p].path)]
        /\ loadedText[TplFile(fs[p].dir, fs[p].path)] \in TemplateTexts
        /\ loadedText[TplFile(fs[p].dir, fs[p].path)] # fs[p]

HandlesTemplateEvent(dir) ==
    /\ tplEvents[dir] # << >>
    /\ tplEvents' = [tplEvents EXCEPT ![dir] = Tail(@)]
    /\ stopped' = stopped

\* the positions of the list ts holding the template of source file f
EntriesOf(ts, f) == {i \in 1..Len(ts) : TemplateId(ts[i]) = f}

EntrySet(ts, f) == {ts[i] : i \in EntriesOf(ts, f)}

UniqueKeys(ts) == \A f \in TplFiles : Cardinality(EntriesOf(ts, f)) <= 1

\* what a handled template event leaves in the live list: at most one entry
\* per key, none for the key of a remove event, the entries of the other keys
\* as they were, and exactly one for the key of an add or change event when
\* MustExist holds of the state
TemplateEventOutcome(MustExist) ==
    \/ templates' = templates /\ tplEvents' = tplEvents
    \/ /\ UniqueKeys(templates) => UniqueKeys(templates')
       /\ \A dir \in ScaffoldDirs :
             HandlesTemplateEvent(dir) =>
                 LET ev == Head(tplEvents[dir])
                     key == TplFile(dir, ev.path)
                 IN  /\ (ev.kind \in {"add", "change"} /\ MustExist[key])
                           => Cardinality(EntriesOf(templates', key)) = 1
                     /\ ev.kind = "unlink" => EntriesOf(templates', key) = {}
                     /\ \A f \in TplFiles \ {key} :
                           EntrySet(templates', f) = EntrySet(templates, f)

\* C11 (as amended): the live list keeps at most one entry per identity key; a
\* remove event leaves none for its key, an add or change event whose source
\* file is still on disk when it is handled leaves exactly one, and the
\* entries of all other keys are unchanged
C11_OneEntryPerKey ==
    [][TemplateEventOutcome([f \in TplFiles |-> tdisk[f] # NoFile])]_vars

\* C11 as stated: every add or change event leaves exactly one entry for its
\* key
C11_EveryAddLeavesAnEntry ==
    [][TemplateEventOutcome([f \in TplFiles |-> TRUE])]_vars

\* the change event of a template loaded at start has been handled: its entry
\* is the only one of its key and the list holds other entries too
C11_EntryReplaced ==
    \E f \in loaded0 :
        /\ loadedText[f] \in TemplateTexts
        /\ loadedText[f].ver = "v2"
        /\ Cardinality(EntriesOf(templates, f)) = 1
        /\ Len(templates) > 1
        /\ Pending = 0

\* the step delivers the unlink event of project file p to its handler
HandlesUnlink(p) ==
    \E dir \in AllWatchDirs :
        /\ fileEvents[dir] # << >>
        /\ Head(fileEvents[dir]) = Event("unlink", p)
        /\ fileEvents' = [fileEvents EXCEPT ![dir] = Tail(@)]
        /\ stopped' = stopped

\* the step logs one more "Scaffolding" line and no other line
LogsScaffolding ==
    /\ BagCardinality(log') = BagCardinality(log) + 1
    /\ \E m \in BagToSet(log') :
          m.text = "Scaffolding" /\ CopiesIn(m, log') = CopiesIn(m, log) + 1

IdentityKey(t) == <<t.scopePrefix, t.templatePath>>

KeysOf(ts) == {IdentityKey(ts[i]) : i \in 1..Len(ts)}

WithKey(ts, k) == {ts[i] : i \in {j \in 1..Len(ts) : IdentityKey(ts[j]) = k}}

\* C13 as stated: mergeTemplates returns exactly one entry for every identity
\* key (scopePrefix, sourcePath) of either input and no entry of another key;
\* the entry is the override's for a key of the override and the base's for a
\* key of the base alone
C13_MergeKeepsEveryKey ==
    (returned /\ call.op = "mergeTemplates") =>
        LET base == call.args[1]
            override == call.args[2]
        IN  /\ KeysOf(ret) = KeysOf(base) \cup KeysOf(override)
            /\ \A k \in KeysOf(ret) :
                  /\ Cardinality({i \in 1..Len(ret) : IdentityKey(ret[i]) = k}) = 1
                  /\ k \in KeysOf(override) => WithKey(ret, k) \subseteq WithKey(override, k)
                  /\ k \notin KeysOf(override) => WithKey(ret, k) \subseteq WithKey(base, k)

\* the leading directory segments of a template that are all static
LeadingStatic(t) ==
    LET n == MaxOf({k \in 0..Len(t.segments) :
                      \A i \in 1..k : t.segments[i].type = "static"})
    IN  [i \in 1..n |-> t.segments[i].value]

\* the directory of a template: its scope, then its static prefix
DirOf(t) == t.scopePrefix \o LeadingStatic(t)

DuplicateFree(seq) == \A i, j \in 1..Len(seq) : seq[i] = seq[j] => i = j

InferReturned == returned /\ call.op = "inferWatchDirs"

\* C14 (amended): inferWatchDirs returns a duplicate-free collection holding
\* the directory of every template whose directory is not the empty path, and
\* nothing else; the empty path is never a member
C14_WatchDirsAreTheNonEmptyPrefixes ==
    InferReturned =>
        /\ DuplicateFree(ret)
        /\ Range(ret) = {DirOf(call.args[1][i]) : i \in 1..Len(call.args[1])} \ {<< >>}

\* C14 as stated: the directory of every template is a member
C14_WatchDirsOfEveryTemplate ==
    InferReturned =>
        /\ DuplicateFree(ret)
        /\ Range(ret) = {DirOf(call.args[1][i]) : i \in 1..Len(call.args[1])}

\* two templates of different scopes share one directory, returned once
C14_SharedDirReturnedOnce ==
    /\ InferReturned
    /\ Len(call.args[1]) = 2
    /\ call.args[1][1].scopePrefix # call.args[1][2].scopePrefix
    /\ DirOf(call.args[1][1]) = DirOf(call.args[1][2])
    /\ Len(ret) = 1

MatchReturned == returned /\ call.op = "matchFile"

\* the bracket tokens of a pattern path
BracketsOf(path) ==
    {path[i][j] : <<i, j>> \in {ij \in (1..Len(path)) \X (1..4) :
                                    /\ ij[2] <= Len(path[ij[1]])
                                    /\ IsBracketToken(path[ij[1]][ij[2]])}}

\* C15: a pattern with no param and no spread token matches a concrete path
\* exactly when the path equals the pattern literally, and then captures
\* nothing; every other path, of the same extension or not, is rejected
C15_StaticPatternMatchesItselfOnly ==
    (MatchReturned /\ BracketsOf(call.args[2].templatePath) = {}) =>
        /\ ret.ok <=> call.args[1] = call.args[2].templatePath
        /\ ret.ok => DOMAIN ret.captures = {}

\* a static pattern with a directory has matched its own path
C15_StaticPathMatched ==
    /\ MatchReturned
    /\ BracketsOf(call.args[2].templatePath) = {}
    /\ Len(call.args[1]) > 1
    /\ ret.ok

\* the pattern is static directories followed by the file name [...p].vue
SpreadFilePattern(path) ==
    /\ path[Len(path)] = VueName(<<"[...p]">>)
    /\ BracketsOf(dirname(path)) = {}

\* the concrete file name is a non-empty stem followed by .vue
HasVueExtension(name) ==
    /\ Len(name) > 2
    /\ SubSeq(name, Len(name) - 1, Len(name)) = <<Dot, "vue">>

StemOf(name) == SubSeq(name, 1, Len(name) - 2)

\* C16: under static directories d1..dn a file name [...p].vue matches
\* d1/../dn/p1/../pk/stem.vue for every k >= 0 and captures exactly
\* p = p1/../pk/stem; a path of another prefix or extension is rejected
C16_SpreadFilenameCapturesRest ==
    (MatchReturned /\ SpreadFilePattern(call.args[2].templatePath)) =>
        LET filePath == call.args[1]
            name == filePath[Len(filePath)]
            dirs == dirname(filePath)
            ds == dirname(call.args[2].templatePath)
        IN  IF HasVueExtension(name) /\ IsPrefix(ds, dirs)
            THEN /\ ret.ok
                 /\ DOMAIN ret.captures = {"p"}
                 /\ ret.captures["p"] =
                        SubSeq(dirs, Len(ds) + 1, Len(dirs)) \o <<StemOf(name)>>
            ELSE ~ret.ok

\* directories lie between the static directories and the file
C16_DirectoriesCaptured ==
    /\ MatchReturned
    /\ SpreadFilePattern(call.args[2].templatePath)
    /\ Len(call.args[2].templatePath) > 1
    /\ Len(call.args[1]) > Len(call.args[2].templatePath)
    /\ ret.ok
    /\ Len(ret.captures["p"]) > 1

\* the number of "/"-separated components of a captured value
ComponentsOf(value) == Len(value)

\* C17 as stated: a template whose pattern holds no spread token matches only
\* concrete paths with exactly as many directory components as the pattern
\* path has, and each of its captures is text of one path component
C17_ParamStaysInsideOneComponent ==
    (MatchReturned /\ ret.ok
       /\ BracketsOf(call.args[2].templatePath) \cap SpreadTokens = {}) =>
        /\ Len(dirname(call.args[1])) = Len(dirname(call.args[2].templatePath))
        /\ \A name \in DOMAIN ret.captures : ComponentsOf(ret.captures[name]) = 1

DiscoverReturned == returned /\ call.op = "discoverScaffoldDirs"

\* every directory on the way from the root to D, D included, is neither
\* hidden nor called like the scaffold folder
Reachable(tree, D, name) ==
    /\ D = << >> \/ D \in tree.dirs
    /\ \A i \in 1..Len(D) : D[i][1] # Dot /\ D[i] # name

\* the directories that directly contain a subdirectory of the given name
ScopeRoots(tree, name) ==
    {D \in {<< >>} \cup tree.dirs : Reachable(tree, D, name) /\ Append(D, name) \in tree.dirs}

PendingFor(p) ==
    \E d \in AllWatchDirs : \E i \in 1..Len(fileEvents[d]) : fileEvents[d][i].path = p

\* since its last creation the file was announced and overwritten at most once
ScaffoldedAtMostOnce(p) == announced[p] <= 1 /\ written[p] <= 1

\* C19 as stated: a creation of an empty, non-baseline file that a live
\* template matches causes exactly one overwrite and exactly one Scaffolding
\* message: never more than one of either, and one of each once the events of
\* the creation have been handled
C19_OneScaffoldPerCreation ==
    \A p \in Files :
        /\ ScaffoldedAtMostOnce(p)
        /\ (fs[p] # NoFile /\ born[p] # NoTemplate /\ p \notin initialFiles
              /\ ~PendingFor(p))
            => (announced[p] = 1 /\ written[p] = 1)

\* C20: once stop() has completed the session stays stopped, and no step,
\* another stop() included, logs a message, changes the live templates or the
\* baseline, or has applyTemplate write a file; the project files change only
\* by the developer's own edits
C20_StoppedIsAbsorbing ==
    [][stopped =>
        /\ stopped'
        /\ log' = log
        /\ templates' = templates
        /\ initialFiles' = initialFiles
        /\ \A p \in Files : written'[p] <= written[p] /\ announced'[p] <= announced[p]
        /\ ops' = ops => fs' = fs]_vars

\* after stop() the developer created an empty file in a watched directory
\* that a live template matches; it stays empty
C20_CreationAfterStopIgnored ==
    /\ stopped
    /\ \E p \in missed :
          /\ fs[p] = Empty
          /\ p \notin initialFiles
          /\ Watched(watchDirs, p)
          /\ MatchingIdx(p, templates) # {}

\* C21 as stated: when stop() is called while some watcher has not signalled
\* readiness, the combined ready promise still settles eventually
C21_ReadySettlesAfterStop ==
    (closed # {} /\ \E w \in watchers : readyPromises[w] = "pending")
        ~> (ready = "resolved")

\* C22 as stated: a failed application of a template leaves the orchestrator
\* active: the process that runs the handlers is never ended by it, so the
\* events that follow are still handled
C22_FailedScaffoldKeepsWatching == ~crashed

\* C23 as stated: a step that logs the Scaffolding message of a file has
\* overwritten the file with the content of the selected template; no message
\* is logged for a file whose template application fails
C23_LoggedOnlyWhenWritten ==
    [][\A p \in Files :
        (HandlesAdd(p) /\ announced'[p] = announced[p] + 1)
            => /\ written'[p] = written[p] + 1
               /\ fs'[p] = tdisk[TemplateId(findTemplateForFile(p, templates))]]_vars

\* the step handles the unlink event of template file f
HandlesTemplateUnlink(f) ==
    /\ f.dir \in ScaffoldDirs
    /\ HandlesTemplateEvent(f.dir)
    /\ Head(tplEvents[f.dir]) = Event("unlink", f.path)

\* C24: a file is written in the very step that looked its template up, and
\* with the content of the winner over the live templates as they are in
\* that step, so no template event comes between lookup and write; and the
\* entry of a template leaves the live list only in the step that handles
\* the removal of its file, so no state shows a changed template taken out
\* and not yet put back
C24_LookupAndWriteAreOneStep ==
    [][/\ \A p \in Files :
            written'[p] = written[p] + 1 =>
                /\ HandlesAdd(p)
                /\ MatchingIdx(p, templates) # {}
                /\ fs'[p] = tdisk[TemplateId(templates[WinnerIdx(p, templates)])]
       /\ \A f \in TplFiles :
            (EntriesOf(templates, f) # {} /\ EntriesOf(templates', f) = {})
                => HandlesTemplateUnlink(f)]_vars

\* a file has been written in a session in which a template event was
\* handled as well
C24_WriteAmongTemplateEvents ==
    /\ \E p \in Files : written[p] = 1 /\ fs[p] \in TemplateTexts
    /\ \E m \in BagToSet(log) :
          m.text \in {"Template added", "Template updated", "Template removed"}

\* C25: handling the creation event of a path that does not exist when the
\* handler runs creates and writes no file, logs nothing and starts no
\* scaffold
C25_AddOfMissingPathIsNoOp ==
    [][\A p \in Files :
          (HandlesAdd(p) /\ fs[p] = NoFile) =>
              /\ fs' = fs
              /\ log' = log
              /\ inflight' = inflight
              /\ announced' = announced
              /\ written' = written]_vars

\* the creation event of a path created in the session and gone again was
\* handled while a live template matched it, and the path is still absent
C25_VanishedPathLeftAlone ==
    \E p \in vanished :
        /\ fs[p] = NoFile
        /\ p \notin initialFiles
        /\ MatchingIdx(p, templates) # {}
        /\ announced[p] = 0

\* the directory segments of a template that stand for exactly one component
SingleSegments(t) == CountType(t.segments, "static") + CountType(t.segments, "param")

\* C26: in the directory walk every static and every param segment takes a
\* component of its own, so a path that matches has at least as many
\* directory components as the template has static and param directory
\* segments
C26_EachComponentConsumedOnce ==
    (MatchReturned /\ ret.ok) =>
        Len(dirname(call.args[1])) >= SingleSegments(call.args[2])

\* the components obtained from the tokens of one pattern component when
\* each bracket token is replaced by its captured value; acc holds the
\* components built so far, the last one still open
RECURSIVE substTokens(_, _, _)
substTokens(tokens, captures, acc) ==
    IF tokens = << >> THEN acc
    ELSE LET tok == Head(tokens)
             value == IF IsBracketToken(tok) THEN captures[BracketName(tok)]
                      ELSE <<<<tok>>>>
             joined == IF value = << >> THEN acc
                       ELSE SubSeq(acc, 1, Len(acc) - 1)
                            \o <<acc[Len(acc)] \o value[1]>> \o Tail(value)
         IN  substTokens(Tail(tokens), captures, joined)

\* the pattern path with every bracket token replaced by its capture
RECURSIVE Substituted(_, _)
Substituted(path, captures) ==
    IF path = << >> THEN << >>
    ELSE substTokens(Head(path), captures, <<<< >>>>) \o Substituted(Tail(path), captures)

\* every bracket token of the pattern has a captured value
AllCaptured(path, captures) ==
    \A tok \in BracketsOf(path) : BracketName(tok) \in DOMAIN captures

\* C27: when matchFile succeeds, putting the captured values in the place of
\* the bracket tokens of the pattern path gives the concrete path back; said
\* here of the pattern [...p].c.vue, a spread file name with a static suffix,
\* and a file in the directory of the template
C27_SuffixedSpreadRebuildsThePath ==
    (MatchReturned /\ ret.ok
       /\ call.args[2].templatePath = <<VueName(<<"[...p]", Dot, "c">>)>>
       /\ Len(call.args[1]) = 1) =>
        Substituted(call.args[2].templatePath, ret.captures) = call.args[1]

\* the step handles a change event of template file f whose entry is live
HandlesTemplateEdit(f) ==
    /\ f.dir \in ScaffoldDirs
    /\ HandlesTemplateEvent(f.dir)
    /\ Head(tplEvents[f.dir]) = Event("change", f.path)
    /\ tdisk[f] # NoFile
    /\ EntriesOf(templates, f) # {}

\* the identity key of the template selected for a file path
WinnerKey(filePath, ts) ==
    LET t == findTemplateForFile(filePath, ts)
    IN  IF t = NoTemplate THEN << >> ELSE IdentityKey(t)

\* C28: handling a change event of a template file whose pattern path is
\* unchanged leaves the template selected for every file path the same
C28_EditKeepsEveryWinner ==
    [][\A f \in TplFiles :
          HandlesTemplateEdit(f) =>
              \A p \in Files : WinnerKey(p, templates') = WinnerKey(p, templates)]_vars

\* the matching candidates that no matching candidate outranks
TopIdx(filePath, ts) ==
    {i \in MatchingIdx(filePath, ts) :
        \A j \in MatchingIdx(filePath, ts) :
            ~LexGreater(RankTuple(ts[j]), RankTuple(ts[i]))}

\* the least member of a set of positions
FirstOf(S) == CHOOSE x \in S : \A y \in S : x <= y

\* C29: when matching candidates share the greatest ranking tuple, the
\* template returned is the one of them that stands first in the candidate
\* list
C29_FirstOfEqualsReturned ==
    (rDone /\ MatchingIdx(rFile, rCands) # {}) =>
        rResult = rCands[FirstOf(TopIdx(rFile, rCands))]

\* two different candidates of one ranking tuple match the file, and the
\* first of them has been returned
C29_TieResolvedByPosition ==
    /\ rDone
    /\ TopIdx(rFile, rCands) = {1, MaxCands}
    /\ rCands[1] # rCands[MaxCands]
    /\ rResult = rCands[1]

\* C30: every live template, loaded at start or inserted by a template
\* event, has a scopeDepth that is not negative and is the number of path
\* components of its scopePrefix, 0 exactly for the empty prefix
C30_DepthCountsScopeComponents ==
    \A i \in 1..Len(templates) :
        /\ templates[i].scopeDepth >= 0
        /\ templates[i].scopeDepth = Len(templates[i].scopePrefix)
        /\ (templates[i].scopeDepth = 0) <=> (templates[i].scopePrefix = << >>)

\* the live list holds a template of a nested scaffold folder inserted by a
\* template event next to a template of the root folder loaded at start
C30_NestedTemplateInserted ==
    /\ \E i \in 1..Len(templates) :
          /\ templates[i].scopeDepth > 0
          /\ TemplateId(templates[i]) \notin loaded0
    /\ \E j \in 1..Len(templates) :
          /\ templates[j].scopePrefix = << >>
          /\ TemplateId(templates[j]) \in loaded0

====
